---- MODULE Spec2Model ----
(***************************************************************************)
(* State-machine model of the FocusFusion front-end pages that own a       *)
(* Collection Store: LearningPlanPage (with CommentForm / Comment and the  *)
(* confirmation modal), ResourcesPage and EventsPage.                      *)
(*                                                                         *)
(* One page is mounted per behaviour (the router mounts one page element   *)
(* at a time and no state crosses pages).  Every handler is split at its   *)
(* awaits: the part up to the dispatch of the request is one action, the   *)
(* REST server answering is one action, and the continuation of the        *)
(* handler (then / catch / finally) is one action.  A handler that closes  *)
(* over a state value (learningPlans, events, editingId) carries the value *)
(* it captured when it was invoked in the request record (field snap).     *)
(***************************************************************************)
EXTENDS Integers, Sequences, FiniteSets, TLC

\* ------------------------------------------------------------------ bounds
\* Ids the server may ever assign to items of one collection.
MaxItems == 2
\* Ids the server may ever assign to comments.
MaxComments == 2
\* Requests that may be in flight at the same time.
MaxInFlight == 2
\* Longest text a user types into a form field.
MaxText == 1
\* Gestures (clicks, submits, edits of a field) the user makes in one behaviour.
MaxGestures == 4

\* ------------------------------------------------------------- vocabulary
NoUser == "null"
Viewer == "u1"
Other == "u2"
Users == {Viewer, Other}

Pages == {"plans", "resources", "events"}

\* Characters a user types: a space and one non-space character.
Chars == {" ", "a"}

RECURSIVE TextsUpTo(_)
TextsUpTo(n) ==
  IF n = 0 THEN {<<>>}
  ELSE LET shorter == TextsUpTo(n - 1)
       IN shorter \cup {Append(t, c) : t \in {s \in shorter : Len(s) = n - 1}, c \in Chars}

Texts == TextsUpTo(MaxText)

\* String.prototype.trim: drop the leading and the trailing spaces.
RECURSIVE TrimLeft(_)
TrimLeft(t) ==
  IF t = <<>> THEN <<>>
  ELSE IF Head(t) = " " THEN TrimLeft(Tail(t)) ELSE t

RECURSIVE TrimRight(_)
TrimRight(t) ==
  IF t = <<>> THEN <<>>
  ELSE IF t[Len(t)] = " " THEN TrimRight(SubSeq(t, 1, Len(t) - 1)) ELSE t

Trim(t) == TrimRight(TrimLeft(t))

\* ------------------------------------------------------- array operations
Ids(s) == {s[i].id : i \in 1..Len(s)}

\* Array.prototype.filter(x => x.id !== id).
RemoveById(s, id) == SelectSeq(s, LAMBDA x : x.id # id)

\* Array.prototype.find(x => x.id === id): the first element with that id,
\* as a sequence of length 0 (undefined) or 1.
FindById(s, id) ==
  LET hits == SelectSeq(s, LAMBDA x : x.id = id)
  IN IF hits = <<>> THEN <<>> ELSE <<Head(hits)>>

\* ------------------------------------------------------------- data model
\* Item (plan, resource, event): id, owner, content, likes, comments.
Item(id, owner, title, likes, comments) ==
  [id |-> id, userId |-> owner, title |-> title, likes |-> likes, comments |-> comments]

Like(u) == [userId |-> u]

CommentRec(id, u, content, edited) ==
  [id |-> id, userId |-> u, content |-> content, edited |-> edited]

\* some(like => like.userId === u)
HasLike(item, u) == \E i \in 1..Len(item.likes) : item.likes[i].userId = u

\* ------------------------------------------------------------ the network
\* A request slot.  h: the handler awaiting the call; op: the REST action;
\* id / cid: the item and comment addressed; data: the text sent;
\* snap: the store value the handler closed over when it was invoked;
\* live: the component instance that awaits the call is still mounted;
\* phase: "sent" (dispatched), "ok" / "fail" (settled, continuation not yet
\* run); resp: the response body as a list of items (empty: no content).
Req(h, op, id, cid, data, snap) ==
  [h |-> h, op |-> op, id |-> id, cid |-> cid, data |-> data, snap |-> snap,
   phase |-> "sent", resp |-> <<>>, live |-> TRUE]

Idle ==
  [h |-> "none", op |-> "none", id |-> 0, cid |-> 0, data |-> <<>>, snap |-> <<>>,
   phase |-> "idle", resp |-> <<>>, live |-> TRUE]

Slots == 1..MaxInFlight

VARIABLES
  page,           \* the mounted page
  authLoading,    \* AuthContext.loading
  currentUser,    \* AuthContext.currentUser: NoUser or a user id
  server,         \* the REST server: [items, nextId, nextCid]
  net,            \* Slots -> request record or Idle
  toasts,         \* notifications emitted by the last step
  uncaught,       \* the last step threw out of its handler
  last,           \* the step taken last (handler and branch)
  budget,         \* gestures the user has left
  loading,        \* useState(true) of the mounted page
  error,          \* useState(null) of ResourcesPage / EventsPage: <<>> or <<msg>>
  learningPlans,  \* LearningPlanPage store
  isSubmitting,   \* LearningPlanPage create form latch
  planForm,       \* react-hook-form values of the create form
  modalState,     \* useConfirmModal state
  commentForm,    \* plan id -> CommentForm state [text, isSubmitting]
  isEditing,      \* comment ids whose Comment is in edit mode
  isDeleting,     \* comment ids whose Comment has isDeleting set
  resources,      \* ResourcesPage store
  showCreate,     \* ResourcesPage create form shown
  newTitle,       \* ResourcesPage create form title
  editingId,      \* ResourcesPage: 0 (null) or the id in edit mode
  editTitle,      \* ResourcesPage edit form title
  events,         \* EventsPage store
  modalOpen,      \* EventsPage modal shown
  editData,       \* EventsPage: <<>> (null) or <<event>>
  form,           \* EventModal form: [id, title]
  gone,           \* history: comment ids whose delete has been applied to the store
  removed,        \* history: plan ids whose delete has been applied to the store
  toggle,         \* history: the like sets around the latest awaited like toggles
  intent          \* history: the plans the viewer has toggled an odd number of times

sharedVars == <<page, authLoading, currentUser, server, net, toasts, uncaught, last, budget,
               loading, error>>
plansVars == <<learningPlans, isSubmitting, planForm, modalState, commentForm, isEditing, isDeleting>>
resVars == <<resources, showCreate, newTitle, editingId, editTitle>>
evVars == <<events, modalOpen, editData, form>>
histVars == <<gone, toggle, intent, removed>>
vars == <<sharedVars, plansVars, resVars, evVars, histVars>>

\* No like toggle is being followed.
NoToggle == [id |-> 0, s0 |-> {}, s1 |-> {}, pend |-> {}, n |-> 0]

\* The continuations that write the learning plan store, other than handleLike's.
PlanWrites == {"fetchLearningPlans.ok", "handlePlanSubmit.ok", "handleAddComment.ok",
               "Comment.handleUpdate.ok", "Comment.handleDelete.ok", "handleDelete.ok"}

\* What a step shows: its name, the notifications it emits, whether an
\* exception escaped the handler, and the histories after it.
Hist(step, msgs, threw, g, t, n, r) ==
  /\ last' = step /\ toasts' = msgs /\ uncaught' = threw
  /\ gone' = g /\ toggle' = t /\ intent' = n /\ removed' = r

\* A full fetch applied to the store forgets the deleted plans.
Note(step, msgs, threw, g, t, n) ==
  Hist(step, msgs, threw, g, t, n,
       IF step = "fetchLearningPlans.ok" THEN {} ELSE removed)

\* A full fetch applied to the store forgets the deleted comments; a write to
\* the store by another operation ends the sequence of like toggles followed.
Out(step, msgs, threw) ==
  Note(step, msgs, threw,
       IF step = "fetchLearningPlans.ok" THEN {} ELSE gone,
       IF step \in PlanWrites THEN NoToggle ELSE toggle,
       intent)

\* A step the user takes, and a step the environment or a continuation takes.
User(step, msgs, threw) == budget > 0 /\ budget' = budget - 1 /\ Out(step, msgs, threw)
Sys(step, msgs, threw) == budget' = budget /\ Out(step, msgs, threw)

FreeSlots == {i \in Slots : net[i] = Idle}
HasFree == FreeSlots # {}
FirstFree == CHOOSE i \in FreeSlots : \A j \in FreeSlots : i <= j

\* Dispatch: the request occupies the first free slot.
Send(r) == [net EXCEPT ![FirstFree] = r]
Done(i) == [net EXCEPT ![i] = Idle]

\* ------------------------------------------------------------- the server
\* The REST API of section 6 of the specification (the server is external).
SrvFind(id) == FindById(server.items, id)
SrvHas(id) == id \in Ids(server.items)

SrvPatch(id, item) ==
  [server EXCEPT !.items = [i \in 1..Len(@) |-> IF @[i].id = id THEN item ELSE @[i]]]

\* Creates dispatched and not yet answered.
PendingCreates == Cardinality({i \in Slots : net[i].op = "create" /\ net[i].phase = "sent"})
PendingComments == Cardinality({i \in Slots : net[i].op = "addComment" /\ net[i].phase = "sent"})
\* The server still has an id to give to one more created item / comment.
CanCreate == server.nextId + PendingCreates <= MaxItems
CanComment == server.nextCid + PendingComments <= MaxComments

\* The request can be served: its target exists.
SrvCanServe(r) ==
  CASE r.op \in {"list", "create"} -> TRUE
    [] r.op \in {"update", "delete", "addLike", "removeLike", "addComment", "register"} ->
         SrvHas(r.id)
    [] r.op \in {"updateComment", "deleteComment"} ->
         SrvHas(r.id) /\ r.cid \in Ids(SrvFind(r.id)[1].comments)
    [] OTHER -> FALSE

\* The server state after serving the request.
SrvAfter(r) ==
  LET it == SrvFind(r.id)[1] IN
  CASE r.op = "create" ->
         [server EXCEPT !.items = Append(@, Item(server.nextId, currentUser, r.data, <<>>, <<>>)),
                        !.nextId = @ + 1]
    [] r.op = "update" -> SrvPatch(r.id, [it EXCEPT !.title = r.data])
    [] r.op = "delete" -> [server EXCEPT !.items = RemoveById(@, r.id)]
    [] r.op = "addLike" ->
         IF HasLike(it, currentUser) THEN server
         ELSE SrvPatch(r.id, [it EXCEPT !.likes = Append(@, Like(currentUser))])
    [] r.op = "removeLike" ->
         SrvPatch(r.id, [it EXCEPT !.likes = SelectSeq(@, LAMBDA l : l.userId # currentUser)])
    [] r.op = "addComment" ->
         [SrvPatch(r.id, [it EXCEPT !.comments =
              Append(@, CommentRec(server.nextCid, currentUser, r.data, FALSE))])
            EXCEPT !.nextCid = @ + 1]
    [] r.op = "updateComment" ->
         SrvPatch(r.id, [it EXCEPT !.comments =
              [k \in 1..Len(@) |-> IF @[k].id = r.cid
                                   THEN [@[k] EXCEPT !.content = r.data, !.edited = TRUE]
                                   ELSE @[k]]])
    [] r.op = "deleteComment" ->
         SrvPatch(r.id, [it EXCEPT !.comments = RemoveById(@, r.cid)])
    [] OTHER -> server

\* The response body, read from the server state after serving.
SrvReply(r, after) ==
  CASE r.op = "list" -> after.items
    [] r.op = "create" -> <<after.items[Len(after.items)]>>
    [] r.op \in {"update", "addLike", "addComment"} -> FindById(after.items, r.id)
    [] OTHER -> <<>>

\* The server answers request i with success.
ServerOk(i) ==
  /\ net[i].phase = "sent"
  /\ SrvCanServe(net[i])
  /\ LET after == SrvAfter(net[i]) IN
       /\ server' = after
       /\ net' = [net EXCEPT ![i].phase = "ok", ![i].resp = SrvReply(net[i], after)]
  /\ Sys("ServerOk", <<>>, FALSE)
  /\ UNCHANGED <<page, authLoading, currentUser, loading, error, plansVars, resVars, evVars>>

\* Request i fails (NetworkError, AuthError or ServerError); the server is unchanged.
ServerFail(i) ==
  /\ net[i].phase = "sent"
  /\ net' = [net EXCEPT ![i].phase = "fail"]
  /\ Sys("ServerFail", <<>>, FALSE)
  /\ UNCHANGED <<page, authLoading, currentUser, server, loading, error, plansVars, resVars, evVars>>

\* ------------------------------------------------------- initial states
\* What the server holds when the page is mounted: the first n items.
InitItem(p, k) ==
  IF p = "plans"
  THEN IF k = 1
       THEN Item(1, Viewer, <<"a">>, <<Like(Other)>>, <<CommentRec(1, Viewer, <<"a">>, FALSE)>>)
       ELSE Item(k, Other, <<"a">>, <<>>, <<>>)
  ELSE Item(k, Viewer, <<"a">>, <<>>, <<>>)

InitServer(p, n) ==
  [items |-> [k \in 1..n |-> InitItem(p, k)], nextId |-> n + 1, nextCid |-> 2]

ClosedModal == [isOpen |-> FALSE, kind |-> "none", id |-> 0, cid |-> 0, snap |-> <<>>]
EmptyPlanForm == [title |-> <<>>, description |-> <<>>]
EmptyCommentForm == [text |-> <<>>, isSubmitting |-> FALSE]
EmptyEventForm == [id |-> 0, title |-> <<>>]

ItemIds == 1..MaxItems
CommentIds == 1..MaxComments

\* The first request of the page: the mount effect's list fetch.  ResourcesPage
\* fetches only once authentication has settled with a user.
MountFetch(p) ==
  CASE p = "plans" -> Req("fetchLearningPlans", "list", 0, 0, <<>>, <<>>)
    [] p = "events" -> Req("EventsPage.useEffect", "list", 0, 0, <<>>, <<>>)
    [] OTHER -> Idle

Init ==
  /\ page \in Pages
  /\ authLoading = (page = "resources")
  /\ currentUser \in (IF page = "resources" THEN {NoUser} ELSE {NoUser, Viewer})
  /\ \E n \in 0..MaxItems : server = InitServer(page, n)
  /\ net = [i \in Slots |-> IF i = 1 THEN MountFetch(page) ELSE Idle]
  /\ toasts = <<>>
  /\ uncaught = FALSE
  /\ last = "mount"
  /\ budget = MaxGestures
  /\ loading = TRUE
  /\ error = <<>>
  /\ learningPlans = <<>>
  /\ isSubmitting = FALSE
  /\ planForm = EmptyPlanForm
  /\ modalState = ClosedModal
  /\ commentForm = [k \in ItemIds |-> EmptyCommentForm]
  /\ isEditing = {}
  /\ isDeleting = {}
  /\ resources = <<>>
  /\ showCreate = FALSE
  /\ newTitle = <<>>
  /\ editingId = 0
  /\ editTitle = <<>>
  /\ events = <<>>
  /\ modalOpen = FALSE
  /\ editData = <<>>
  /\ form = EmptyEventForm
  /\ gone = {}
  /\ removed = {}
  /\ intent = {}
  /\ toggle = NoToggle

\* ------------------------------------------------------ LearningPlanPage
OnPlans == page = "plans"
\* The confirmation modal's backdrop (fixed inset-0) covers the page: the
\* controls underneath take no click while it is open.
ModalClosed == ~modalState.isOpen
\* The feed is rendered (not the spinner) and shows the plan.
PlanShown(planId) == ~loading /\ planId \in Ids(learningPlans)

AllComments(store) == UNION {Ids(store[k].comments) : k \in 1..Len(store)}

\* The plan that shows comment cid, as a list of length 0 or 1.
PlanOfComment(store, cid) == SelectSeq(store, LAMBDA pl : cid \in Ids(pl.comments))

\* Component state lives as long as its component is rendered: a CommentForm
\* of a plan that left the store, and a Comment that left it, start afresh,
\* a Comment's modal goes with it, and what their pending handlers set later
\* is set on an unmounted component (live = FALSE).
MountedForms(store, forms) ==
  [k \in ItemIds |-> IF k \in Ids(store) THEN forms[k] ELSE EmptyCommentForm]
MountedComments(store, cids) == cids \cap AllComments(store)
MountedModal(store, m) ==
  IF m.kind = "comment" /\ m.cid \notin AllComments(store) THEN ClosedModal ELSE m
Orphan(store, n) ==
  [i \in Slots |->
     IF \/ n[i].h = "CommentForm.onSubmit" /\ n[i].id \notin Ids(store)
        \/ n[i].h \in {"Comment.handleUpdate", "Comment.handleDelete"}
             /\ n[i].cid \notin AllComments(store)
     THEN [n[i] EXCEPT !.live = FALSE]
     ELSE n[i]]

\* setLearningPlans(next) and the re-render it causes; forms, ed, del, m and n
\* are the component states, the modal and the requests the step leaves.
SetLearningPlans(next, forms, ed, del, m, n) ==
  /\ learningPlans' = next
  /\ commentForm' = MountedForms(next, forms)
  /\ isEditing' = MountedComments(next, ed)
  /\ isDeleting' = MountedComments(next, del)
  /\ modalState' = MountedModal(next, m)
  /\ net' = Orphan(next, n)

renderVars == <<learningPlans, commentForm, isEditing, isDeleting, modalState>>
authVars == <<page, authLoading, currentUser>>

\* A variant of ReplaceById that merges the server's likes into the local ones
\* instead of replacing the plan.
ReplaceByIdMerged(store, planId, item) ==
  [k \in 1..Len(store) |->
     IF store[k].id = planId
     THEN [item EXCEPT !.likes = store[k].likes \o item.likes]
     ELSE store[k]]

\* learningPlans.map(plan => plan.id === planId ? item : plan)
ReplaceById(store, planId, item) ==
  [k \in 1..Len(store) |-> IF store[k].id = planId THEN item ELSE store[k]]

\* fetchLearningPlans, after the await (try / catch / finally).
fetchLearningPlansSettled(i) ==
  /\ OnPlans
  /\ net[i].h = "fetchLearningPlans"
  /\ \/ /\ net[i].phase = "ok"
        /\ SetLearningPlans(net[i].resp, commentForm, isEditing, isDeleting, modalState, Done(i))
        /\ Sys("fetchLearningPlans.ok", <<>>, FALSE)
     \/ /\ net[i].phase = "fail"
        /\ Sys("fetchLearningPlans.fail", <<"Failed to load learning plans">>, FALSE)
        /\ net' = Done(i)
        /\ UNCHANGED renderVars
  /\ loading' = FALSE
  /\ UNCHANGED <<authVars, server, error, isSubmitting, planForm, resVars, evVars>>

\* The user edits the create form (its inputs are disabled while submitting).
TypePlanForm(f) ==
  /\ OnPlans /\ ModalClosed
  /\ ~isSubmitting
  /\ f # planForm
  /\ planForm' = f
  /\ User("TypePlanForm", <<>>, FALSE)
  /\ UNCHANGED <<authVars, server, net, loading, error, renderVars, isSubmitting,
                 resVars, evVars>>

\* register(name, {required}): react-hook-form calls the submit handler only
\* when no required field is the empty string.
PlanFormValid(f) == f.title # <<>> /\ f.description # <<>>

\* The create form's own check: !data.title.trim() || !data.description.trim()
PlanFormBlank(f) == Trim(f.title) = <<>> \/ Trim(f.description) = <<>>

\* handlePlanSubmit(data), up to the await.
handlePlanSubmit ==
  /\ OnPlans /\ ModalClosed
  /\ ~isSubmitting
  /\ PlanFormValid(planForm)
  /\ IF currentUser = NoUser
     THEN /\ User("handlePlanSubmit.noUser",
                 <<"You must be logged in to share a learning plan">>, FALSE)
          /\ UNCHANGED <<net, isSubmitting>>
     ELSE IF PlanFormBlank(planForm)
     THEN /\ User("handlePlanSubmit.invalid", <<"Title and description are required">>, FALSE)
          /\ UNCHANGED <<net, isSubmitting>>
     ELSE /\ HasFree /\ CanCreate
          /\ isSubmitting' = TRUE
          /\ net' = Send(Req("handlePlanSubmit", "create", 0, 0, planForm.title, learningPlans))
          /\ User("handlePlanSubmit.sent", <<>>, FALSE)
  /\ UNCHANGED <<authVars, server, loading, error, renderVars, planForm, resVars, evVars>>

\* handlePlanSubmit after the await: [response.data, ...learningPlans] with the
\* learningPlans of the render the handler was created in.
handlePlanSubmitSettled(i) ==
  /\ OnPlans
  /\ net[i].h = "handlePlanSubmit"
  /\ \/ /\ net[i].phase = "ok"
        /\ Sys("handlePlanSubmit.ok", <<"Learning plan shared successfully">>, FALSE)
        /\ SetLearningPlans(net[i].resp \o net[i].snap, commentForm, isEditing, isDeleting,
                            modalState, Done(i))
        /\ planForm' = EmptyPlanForm
     \/ /\ net[i].phase = "fail"
        /\ Sys("handlePlanSubmit.fail", <<"Failed to share learning plan">>, FALSE)
        /\ net' = Done(i)
        /\ UNCHANGED <<renderVars, planForm>>
  /\ isSubmitting' = FALSE
  /\ UNCHANGED <<authVars, server, loading, error, resVars, evVars>>

\* isLiked: find(p => p.id === planId)?.likes?.some(like => like.userId === currentUser.id)
IsLiked(store, planId, u) ==
  LET hit == FindById(store, planId) IN hit # <<>> /\ HasLike(hit[1], u)

\* A variant of the unlike patch that empties the likes.
UnlikePatchAll(plan, u) == [plan EXCEPT !.likes = <<>>]

\* The unlike patch: the plan with the viewer's likes filtered out.
UnlikePatch(plan, u) ==
  [plan EXCEPT !.likes = SelectSeq(@, LAMBDA l : l.userId # u)]

\* The store after a successful remove-like, computed from the captured list.
UnlikeStore(store, planId, u) ==
  [k \in 1..Len(store) |->
     IF store[k].id = planId THEN UnlikePatch(store[k], u) ELSE store[k]]

\* History of the viewer's intent: each toggle the viewer asks for flips it, and
\* a toggle that failed is taken back.
Flip(planId) == IF planId \in intent THEN intent \ {planId} ELSE intent \cup {planId}

\* The users whose like the plan carries in the store.
LikeSet(store, planId) == {FindById(store, planId)[1].likes[k].userId :
                             k \in 1..Len(FindById(store, planId)[1].likes)}

\* History of like toggles. A toggle invoked while nothing is in flight is
\* followed: pend is the like set it found. A toggle invoked while a request is
\* in flight is not awaited, and ends the sequence.
ToggleSent(planId) ==
  IF \A i \in Slots : net[i] = Idle
  THEN IF toggle.id = planId
       THEN [toggle EXCEPT !.pend = LikeSet(learningPlans, planId)]
       ELSE [NoToggle EXCEPT !.id = planId, !.pend = LikeSet(learningPlans, planId)]
  ELSE NoToggle

\* The followed toggle has been applied: s1 is the like set before it, s0 the
\* like set before the toggle that preceded it, n how many were applied in a row.
ToggleApplied(planId) ==
  IF toggle.id = planId
  THEN [toggle EXCEPT !.s0 = toggle.s1, !.s1 = toggle.pend,
                      !.n = IF @ < 2 THEN @ + 1 ELSE 2]
  ELSE NoToggle

\* A variant of LikeCall with the two branches exchanged.
LikeCallSwapped(liked) == IF liked THEN "addLike" ELSE "removeLike"

\* The REST call handleLike makes for a plan the viewer has / has not liked.
LikeCall(liked) == IF liked THEN "removeLike" ELSE "addLike"

\* A variant of handleLike that abandons the like requests still in flight for
\* the same plan, so that only the latest toggle is answered.
handleLikeLatest(planId) ==
  /\ OnPlans /\ ModalClosed
  /\ PlanShown(planId)
  /\ IF currentUser = NoUser
     THEN /\ User("handleLike.noUser", <<"You must be logged in to like this plan">>, FALSE)
          /\ UNCHANGED net
     ELSE /\ HasFree
          /\ budget > 0 /\ budget' = budget - 1
          /\ Note("handleLike.sent", <<>>, FALSE, gone, ToggleSent(planId), Flip(planId))
          /\ net' = [j \in Slots |->
                       IF j = FirstFree
                       THEN Req("handleLike",
                                IF IsLiked(learningPlans, planId, currentUser)
                                THEN "removeLike" ELSE "addLike",
                                planId, 0, <<>>, learningPlans)
                       ELSE IF net[j].h = "handleLike" /\ net[j].id = planId
                            THEN Idle ELSE net[j]]
  /\ UNCHANGED <<authVars, server, loading, error, plansVars, resVars, evVars>>

\* handleLike(planId), up to the await.
handleLike(planId) ==
  /\ OnPlans /\ ModalClosed
  /\ PlanShown(planId)
  /\ IF currentUser = NoUser
     THEN /\ User("handleLike.noUser", <<"You must be logged in to like this plan">>, FALSE)
          /\ UNCHANGED net
     ELSE /\ HasFree
          /\ budget > 0 /\ budget' = budget - 1
          /\ Note("handleLike.sent", <<>>, FALSE, gone, ToggleSent(planId), Flip(planId))
          /\ net' = Send(Req("handleLike", LikeCall(IsLiked(learningPlans, planId, currentUser)),
                             planId, 0, <<>>, learningPlans))
  /\ UNCHANGED <<authVars, server, loading, error, plansVars, resVars, evVars>>

\* handleLike after the await.
handleLikeSettled(i) ==
  /\ OnPlans
  /\ net[i].h = "handleLike"
  /\ \/ /\ net[i].phase = "ok"
        /\ net[i].op = "removeLike"
        /\ SetLearningPlans(UnlikeStore(net[i].snap, net[i].id, currentUser),
                            commentForm, isEditing, isDeleting, modalState, Done(i))
        /\ budget' = budget
        /\ Note("handleLike.unliked", <<>>, FALSE, gone, ToggleApplied(net[i].id), intent)
     \/ /\ net[i].phase = "ok"
        /\ net[i].op = "addLike"
        /\ SetLearningPlans(ReplaceById(net[i].snap, net[i].id, net[i].resp[1]),
                            commentForm, isEditing, isDeleting, modalState, Done(i))
        /\ budget' = budget
        /\ Note("handleLike.liked", <<>>, FALSE, gone, ToggleApplied(net[i].id), intent)
     \/ /\ net[i].phase = "fail"
        /\ budget' = budget
        /\ Note("handleLike.fail", <<"Failed to process like">>, FALSE, gone, NoToggle,
                Flip(net[i].id))
        /\ net' = Done(i)
        /\ UNCHANGED renderVars
  /\ UNCHANGED <<authVars, server, loading, error, isSubmitting, planForm, resVars, evVars>>

\* --------------------------------------------------------- CommentForm
\* The user types into the comment form of a plan (disabled while submitting).
TypeComment(planId, t) ==
  /\ OnPlans /\ ModalClosed
  /\ PlanShown(planId)
  /\ ~commentForm[planId].isSubmitting
  /\ t # commentForm[planId].text
  /\ commentForm' = [commentForm EXCEPT ![planId].text = t]
  /\ User("TypeComment", <<>>, FALSE)
  /\ UNCHANGED <<authVars, server, net, loading, error, learningPlans, isSubmitting, planForm,
                 modalState, isEditing, isDeleting, resVars, evVars>>

\* A variant of CommentForm.onSubmit without the check of the trimmed text.
CommentFormSubmitNoTrim(planId) ==
  /\ OnPlans /\ ModalClosed
  /\ PlanShown(planId)
  /\ ~commentForm[planId].isSubmitting
  /\ commentForm[planId].text # <<>>
  /\ IF currentUser = NoUser
     THEN /\ User("CommentForm.onSubmit.noUser", <<>>, FALSE)
          /\ UNCHANGED <<net, commentForm>>
     ELSE /\ HasFree /\ CanComment
          /\ commentForm' = [commentForm EXCEPT ![planId].isSubmitting = TRUE]
          /\ net' = Send(Req("CommentForm.onSubmit", "addComment", planId, 0,
                             commentForm[planId].text, learningPlans))
          /\ User("CommentForm.onSubmit.sent", <<>>, FALSE)
  /\ UNCHANGED <<authVars, server, loading, error, learningPlans, isSubmitting, planForm,
                 modalState, isEditing, isDeleting, resVars, evVars>>

\* CommentForm.onSubmit(data) with handleAddComment(planId, commentData) inside
\* it, up to the await.  Building commentData reads currentUser.id inside the
\* try: without a user that throws, the catch logs it, and finally lowers the flag.
CommentFormSubmit(planId) ==
  /\ OnPlans /\ ModalClosed
  /\ PlanShown(planId)
  /\ ~commentForm[planId].isSubmitting
  /\ commentForm[planId].text # <<>>
  /\ IF Trim(commentForm[planId].text) = <<>>
     THEN /\ User("CommentForm.onSubmit.blank", <<>>, FALSE)
          /\ UNCHANGED <<net, commentForm>>
     ELSE IF currentUser = NoUser
     THEN /\ User("CommentForm.onSubmit.noUser", <<>>, FALSE)
          /\ UNCHANGED <<net, commentForm>>
     ELSE /\ HasFree /\ CanComment
          /\ commentForm' = [commentForm EXCEPT ![planId].isSubmitting = TRUE]
          /\ net' = Send(Req("CommentForm.onSubmit", "addComment", planId, 0,
                             commentForm[planId].text, learningPlans))
          /\ User("CommentForm.onSubmit.sent", <<>>, FALSE)
  /\ UNCHANGED <<authVars, server, loading, error, learningPlans, isSubmitting, planForm,
                 modalState, isEditing, isDeleting, resVars, evVars>>

\* A variant of FormAfterSubmit that resets the form whatever the outcome.
FormAfterSubmitAlways(forms, r) ==
  IF ~r.live THEN forms ELSE [forms EXCEPT ![r.id] = EmptyCommentForm]

\* The form state a settled submission leaves: reset() clears the text only on
\* success, finally lowers the flag; an unmounted form is not touched.
FormAfterSubmit(forms, r) ==
  IF ~r.live THEN forms
  ELSE IF r.phase = "ok" THEN [forms EXCEPT ![r.id] = EmptyCommentForm]
  ELSE [forms EXCEPT ![r.id].isSubmitting = FALSE]

\* handleAddComment after the await, then the rest of CommentForm.onSubmit.
CommentFormSettled(i) ==
  /\ OnPlans
  /\ net[i].h = "CommentForm.onSubmit"
  /\ \/ /\ net[i].phase = "ok"
        /\ SetLearningPlans(ReplaceById(net[i].snap, net[i].id, net[i].resp[1]),
                            FormAfterSubmit(commentForm, net[i]), isEditing, isDeleting,
                            modalState, Done(i))
        /\ Sys("handleAddComment.ok", <<>>, FALSE)
     \/ /\ net[i].phase = "fail"
        /\ Sys("handleAddComment.fail", <<"Failed to add comment">>, FALSE)
        /\ commentForm' = FormAfterSubmit(commentForm, net[i])
        /\ net' = Done(i)
        /\ UNCHANGED <<learningPlans, isEditing, isDeleting, modalState>>
  /\ UNCHANGED <<authVars, server, loading, error, isSubmitting, planForm, resVars, evVars>>

\* -------------------------------------------------------------- Comment
CommentTypes == {"LEARNING_PLANS", "UNKNOWN"}

CommentShown(cid) == ~loading /\ cid \in AllComments(learningPlans)
TheComment(cid) ==
  LET pl == PlanOfComment(learningPlans, cid)[1]
  IN FindById(pl.comments, cid)[1]
\* The edit button is rendered for the comment's author, the delete button for
\* the author and for the plan's owner; both are disabled while editing or deleting.
CanEditComment(cid) ==
  /\ CommentShown(cid)
  /\ TheComment(cid).userId = currentUser
  /\ cid \notin isEditing \cup isDeleting
CanDeleteComment(cid) ==
  /\ CommentShown(cid)
  /\ \/ TheComment(cid).userId = currentUser
     \/ PlanOfComment(learningPlans, cid)[1].userId = currentUser
  /\ cid \notin isEditing \cup isDeleting

\* setIsEditing(true) / setIsEditing(false) from the buttons.
StartEdit(cid) ==
  /\ OnPlans /\ ModalClosed
  /\ CanEditComment(cid)
  /\ isEditing' = isEditing \cup {cid}
  /\ User("Comment.setIsEditing.true", <<>>, FALSE)
  /\ UNCHANGED <<authVars, server, net, loading, error, learningPlans, isSubmitting, planForm,
                 modalState, commentForm, isDeleting, resVars, evVars>>

CancelEdit(cid) ==
  /\ OnPlans /\ ModalClosed
  /\ CommentShown(cid) /\ cid \in isEditing
  /\ isEditing' = isEditing \ {cid}
  /\ User("Comment.setIsEditing.false", <<>>, FALSE)
  /\ UNCHANGED <<authVars, server, net, loading, error, learningPlans, isSubmitting, planForm,
                 modalState, commentForm, isDeleting, resVars, evVars>>

\* Comment.handleUpdate(data), up to the await.
CommentHandleUpdate(cid, t, ct) ==
  /\ OnPlans /\ ModalClosed
  /\ CommentShown(cid) /\ cid \in isEditing
  /\ t # <<>>
  /\ IF Trim(t) = <<>>
     THEN /\ User("Comment.handleUpdate.blank", <<>>, FALSE)
          /\ UNCHANGED net
     ELSE IF ct = "LEARNING_PLANS"
     THEN /\ HasFree
          /\ net' = Send(Req("Comment.handleUpdate", "updateComment",
                             PlanOfComment(learningPlans, cid)[1].id, cid, t, learningPlans))
          /\ User("Comment.handleUpdate.sent", <<>>, FALSE)
     ELSE /\ User("Comment.handleUpdate.invalidType", <<"Invalid comment type">>, FALSE)
          /\ UNCHANGED net
  /\ UNCHANGED <<authVars, server, loading, error, plansVars, resVars, evVars>>

\* A variant of the update patch that appends the updated comment instead of
\* replacing it in place.
UpdateCommentPatchAppend(plan, cid, t) ==
  [plan EXCEPT !.comments =
     @ \o [k \in 1..Len(FindById(@, cid)) |->
             [FindById(@, cid)[k] EXCEPT !.content = t, !.edited = TRUE]]]

\* handleUpdateComment(planId, commentId, updatedContent): the patch of one comment.
UpdateCommentPatch(plan, cid, t) ==
  [plan EXCEPT !.comments =
     [k \in 1..Len(@) |-> IF @[k].id = cid
                          THEN [@[k] EXCEPT !.content = t, !.edited = TRUE]
                          ELSE @[k]]]

handleUpdateComment(store, planId, cid, t) ==
  [k \in 1..Len(store) |->
     IF store[k].id = planId THEN UpdateCommentPatch(store[k], cid, t) ELSE store[k]]

\* A variant of the delete patch that drops the last comment whatever its id.
DeleteCommentPatchLast(plan, cid) ==
  [plan EXCEPT !.comments = SubSeq(@, 1, Len(@) - 1)]

\* handleDeleteComment(planId, commentId)
DeleteCommentPatch(plan, cid) == [plan EXCEPT !.comments = RemoveById(@, cid)]

handleDeleteComment(store, planId, cid) ==
  [k \in 1..Len(store) |->
     IF store[k].id = planId THEN DeleteCommentPatch(store[k], cid) ELSE store[k]]

\* Comment.handleUpdate after the await.
CommentUpdateSettled(i) ==
  /\ OnPlans
  /\ net[i].h = "Comment.handleUpdate"
  /\ \/ /\ net[i].phase = "ok"
        /\ SetLearningPlans(handleUpdateComment(net[i].snap, net[i].id, net[i].cid, net[i].data),
                            commentForm,
                            IF net[i].live THEN isEditing \ {net[i].cid} ELSE isEditing,
                            isDeleting, modalState, Done(i))
        /\ Sys("Comment.handleUpdate.ok", <<"Comment updated">>, FALSE)
     \/ /\ net[i].phase = "fail"
        /\ Sys("Comment.handleUpdate.fail", <<"Failed to update comment">>, FALSE)
        /\ net' = Done(i)
        /\ UNCHANGED renderVars
  /\ UNCHANGED <<authVars, server, loading, error, isSubmitting, planForm, resVars, evVars>>

\* Comment.handleDelete: openModal with the onConfirm closure.
CommentHandleDelete(cid) ==
  /\ OnPlans /\ ModalClosed
  /\ CanDeleteComment(cid)
  /\ modalState' = [isOpen |-> TRUE, kind |-> "comment",
                    id |-> PlanOfComment(learningPlans, cid)[1].id, cid |-> cid,
                    snap |-> learningPlans]
  /\ User("Comment.handleDelete.openModal", <<>>, FALSE)
  /\ UNCHANGED <<authVars, server, net, loading, error, learningPlans, isSubmitting, planForm,
                 commentForm, isEditing, isDeleting, resVars, evVars>>

\* Comment.handleDelete's onConfirm after the await.
CommentDeleteSettled(i) ==
  /\ OnPlans
  /\ net[i].h = "Comment.handleDelete"
  /\ \/ /\ net[i].phase = "ok"
        /\ SetLearningPlans(handleDeleteComment(net[i].snap, net[i].id, net[i].cid),
                            commentForm, isEditing,
                            IF net[i].live THEN isDeleting \ {net[i].cid} ELSE isDeleting,
                            modalState, Done(i))
        /\ budget' = budget
        /\ Note("Comment.handleDelete.ok", <<"Comment deleted">>, FALSE,
                gone \cup {net[i].cid}, NoToggle, intent)
     \/ /\ net[i].phase = "fail"
        /\ Sys("Comment.handleDelete.fail", <<"Failed to delete comment">>, FALSE)
        /\ isDeleting' = IF net[i].live THEN isDeleting \ {net[i].cid} ELSE isDeleting
        /\ net' = Done(i)
        /\ UNCHANGED <<learningPlans, commentForm, isEditing, modalState>>
  /\ UNCHANGED <<authVars, server, loading, error, isSubmitting, planForm, resVars, evVars>>

\* ------------------------------------------- plan delete and the modal
\* LearningPlanPage.handleDelete(planId): openModal with the onConfirm closure.
handleDelete(planId) ==
  /\ OnPlans /\ ModalClosed
  /\ PlanShown(planId)
  /\ modalState' = [isOpen |-> TRUE, kind |-> "plan", id |-> planId, cid |-> 0,
                    snap |-> learningPlans]
  /\ User("handleDelete.openModal", <<>>, FALSE)
  /\ UNCHANGED <<authVars, server, net, loading, error, learningPlans, isSubmitting, planForm,
                 commentForm, isEditing, isDeleting, resVars, evVars>>

\* ConfirmModal's confirm button: onConfirm(); onClose().  onConfirm runs up to
\* its await; reading currentUser.token / currentUser.id without a user throws
\* inside the try.
ModalConfirm(ct) ==
  /\ OnPlans
  /\ modalState.isOpen
  /\ modalState' = ClosedModal
  /\ \/ /\ modalState.kind = "plan"
        /\ IF currentUser = NoUser
           THEN /\ User("handleDelete.noUser", <<"Failed to delete learning plan">>, FALSE)
                /\ UNCHANGED net
           ELSE /\ HasFree
                /\ net' = Send(Req("handleDelete", "delete", modalState.id, 0, <<>>,
                                   modalState.snap))
                /\ User("handleDelete.sent", <<>>, FALSE)
        /\ ct = "LEARNING_PLANS"
        /\ UNCHANGED isDeleting
     \/ /\ modalState.kind = "comment"
        /\ IF ct # "LEARNING_PLANS"
           THEN /\ User("Comment.handleDelete.invalidType", <<"Invalid comment type">>, FALSE)
                /\ UNCHANGED <<net, isDeleting>>
           ELSE IF currentUser = NoUser
           THEN /\ User("Comment.handleDelete.noUser", <<"Failed to delete comment">>, FALSE)
                /\ UNCHANGED <<net, isDeleting>>
           ELSE /\ HasFree
                /\ isDeleting' = isDeleting \cup {modalState.cid}
                /\ net' = Send(Req("Comment.handleDelete", "deleteComment", modalState.id,
                                   modalState.cid, <<>>, modalState.snap))
                /\ User("Comment.handleDelete.sent", <<>>, FALSE)
  /\ UNCHANGED <<authVars, server, loading, error, learningPlans, isSubmitting, planForm,
                 commentForm, isEditing, resVars, evVars>>

\* The cancel button, the close button and a click on the backdrop: onClose().
ModalClose ==
  /\ OnPlans
  /\ modalState.isOpen
  /\ modalState' = ClosedModal
  /\ User("closeModal", <<>>, FALSE)
  /\ UNCHANGED <<authVars, server, net, loading, error, learningPlans, isSubmitting, planForm,
                 commentForm, isEditing, isDeleting, resVars, evVars>>

\* A variant of the click inside the modal in which the click bubbles to the
\* backdrop, whose onClick is onClose.
ModalBodyClickBubbles ==
  /\ OnPlans
  /\ modalState.isOpen
  /\ modalState' = ClosedModal
  /\ User("ConfirmModal.handleModalClick", <<>>, FALSE)
  /\ UNCHANGED <<authVars, server, net, loading, error, learningPlans, isSubmitting, planForm,
                 commentForm, isEditing, isDeleting, resVars, evVars>>

\* A click inside the modal, off its buttons: handleModalClick stops the
\* propagation, so the backdrop's onClick does not run.
ModalBodyClick ==
  /\ OnPlans
  /\ modalState.isOpen
  /\ User("ConfirmModal.handleModalClick", <<>>, FALSE)
  /\ UNCHANGED <<authVars, server, net, loading, error, plansVars, resVars, evVars>>

\* LearningPlanPage.handleDelete's onConfirm after the await.
handleDeleteSettled(i) ==
  /\ OnPlans
  /\ net[i].h = "handleDelete"
  /\ \/ /\ net[i].phase = "ok"
        /\ SetLearningPlans(RemoveById(net[i].snap, net[i].id), commentForm, isEditing,
                            isDeleting, modalState, Done(i))
        /\ budget' = budget
        /\ Hist("handleDelete.ok", <<"Learning plan deleted">>, FALSE, gone, NoToggle, intent,
                removed \cup {net[i].id})
     \/ /\ net[i].phase = "fail"
        /\ Sys("handleDelete.fail", <<"Failed to delete learning plan">>, FALSE)
        /\ net' = Done(i)
        /\ UNCHANGED renderVars
  /\ UNCHANGED <<authVars, server, loading, error, isSubmitting, planForm, resVars, evVars>>

PlanForms == [title : Texts, description : Texts]

NextPlans ==
  \/ \E i \in Slots : fetchLearningPlansSettled(i)
  \/ \E f \in PlanForms : TypePlanForm(f)
  \/ handlePlanSubmit
  \/ \E i \in Slots : handlePlanSubmitSettled(i)
  \/ \E id \in ItemIds : handleLike(id)
  \/ \E i \in Slots : handleLikeSettled(i)
  \/ \E id \in ItemIds, t \in Texts : TypeComment(id, t)
  \/ \E id \in ItemIds : CommentFormSubmit(id)
  \/ \E i \in Slots : CommentFormSettled(i)
  \/ \E c \in CommentIds : StartEdit(c)
  \/ \E c \in CommentIds : CancelEdit(c)
  \/ \E c \in CommentIds, t \in Texts, ct \in CommentTypes : CommentHandleUpdate(c, t, ct)
  \/ \E i \in Slots : CommentUpdateSettled(i)
  \/ \E c \in CommentIds : CommentHandleDelete(c)
  \/ \E i \in Slots : CommentDeleteSettled(i)
  \/ \E id \in ItemIds : handleDelete(id)
  \/ \E ct \in CommentTypes : ModalConfirm(ct)
  \/ ModalClose
  \/ ModalBodyClick
  \/ \E i \in Slots : handleDeleteSettled(i)

\* -------------------------------------------------------- ResourcesPage
OnResources == page = "resources"
\* The page body is rendered: authentication has settled with a user.
ResPageShown == OnResources /\ ~authLoading /\ currentUser # NoUser
\* The grid is rendered: !loading && !error.
ResListShown == ResPageShown /\ ~loading /\ error = <<>>

\* A variant of the effect without its guard: fetchResources runs whatever
\* authentication settled with.
AuthSettledUnguarded(u) ==
  /\ OnResources
  /\ authLoading
  /\ authLoading' = FALSE
  /\ currentUser' = u
  /\ loading' = TRUE
  /\ net' = Send(Req("fetchResources", "list", 0, 0, <<>>, <<>>))
  /\ Sys("AuthContext.settled", <<>>, FALSE)
  /\ UNCHANGED <<page, server, error, plansVars, resVars, evVars>>

\* AuthContext settles (the provider is outside this repository's pages); the
\* effect on [authLoading, currentUser] then runs fetchResources up to its await.
AuthSettled(u) ==
  /\ OnResources
  /\ authLoading
  /\ authLoading' = FALSE
  /\ currentUser' = u
  /\ IF u # NoUser
     THEN /\ loading' = TRUE
          /\ net' = Send(Req("fetchResources", "list", 0, 0, <<>>, <<>>))
     ELSE UNCHANGED <<loading, net>>
  /\ Sys("AuthContext.settled", <<>>, FALSE)
  /\ UNCHANGED <<page, server, error, plansVars, resVars, evVars>>

\* The signed-in user changes after authentication has settled (sign-out,
\* sign-in): the effect on [authLoading, currentUser] runs again, and with a
\* user present runs fetchResources up to its await.
AuthChanged(u) ==
  /\ OnResources
  /\ ~authLoading
  /\ u # currentUser
  /\ currentUser' = u
  /\ IF u # NoUser
     THEN /\ HasFree
          /\ loading' = TRUE
          /\ net' = Send(Req("fetchResources", "list", 0, 0, <<>>, <<>>))
     ELSE UNCHANGED <<loading, net>>
  /\ User("AuthContext.changed", <<>>, FALSE)
  /\ UNCHANGED <<page, authLoading, server, error, plansVars, resVars, evVars>>

\* A variant of fetchResources that lowers loading at the end of the try block
\* instead of in a finally block.
fetchResourcesSettledNoFinally(i) ==
  /\ OnResources
  /\ net[i].h = "fetchResources"
  /\ \/ /\ net[i].phase = "ok"
        /\ resources' = net[i].resp
        /\ loading' = FALSE
        /\ Sys("fetchResources.ok", <<"Resources Loaded Successfully">>, FALSE)
        /\ UNCHANGED error
     \/ /\ net[i].phase = "fail"
        /\ error' = <<"Network Error">>
        /\ Sys("fetchResources.fail", <<"Failed to load resources">>, FALSE)
        /\ UNCHANGED <<resources, loading>>
  /\ net' = Done(i)
  /\ UNCHANGED <<authVars, server, plansVars, showCreate, newTitle, editingId, editTitle, evVars>>

\* fetchResources after the await.
fetchResourcesSettled(i) ==
  /\ OnResources
  /\ net[i].h = "fetchResources"
  /\ \/ /\ net[i].phase = "ok"
        /\ resources' = net[i].resp
        /\ Sys("fetchResources.ok", <<"Resources Loaded Successfully">>, FALSE)
        /\ UNCHANGED error
     \/ /\ net[i].phase = "fail"
        /\ error' = <<"Network Error">>
        /\ Sys("fetchResources.fail", <<"Failed to load resources">>, FALSE)
        /\ UNCHANGED resources
  /\ loading' = FALSE
  /\ net' = Done(i)
  /\ UNCHANGED <<authVars, server, plansVars, showCreate, newTitle, editingId, editTitle, evVars>>

\* The Add Resource / Cancel button: setShowCreate(prev => !prev).
ToggleCreate ==
  /\ ResPageShown
  /\ showCreate' = ~showCreate
  /\ User("setShowCreate", <<>>, FALSE)
  /\ UNCHANGED <<authVars, server, net, loading, error, plansVars, resources, newTitle,
                 editingId, editTitle, evVars>>

TypeNewTitle(t) ==
  /\ ResPageShown /\ showCreate
  /\ t # newTitle
  /\ newTitle' = t
  /\ User("setNewTitle", <<>>, FALSE)
  /\ UNCHANGED <<authVars, server, net, loading, error, plansVars, resources, showCreate,
                 editingId, editTitle, evVars>>

\* An input with the required attribute: the browser fires the form's submit
\* event only when the value is not the empty string.
RequiredOk(t) == t # <<>>

\* ResourcesPage.handleCreate(e), up to the await.
resHandleCreate ==
  /\ ResPageShown /\ showCreate
  /\ RequiredOk(newTitle)
  /\ HasFree /\ CanCreate
  /\ net' = Send(Req("ResourcesPage.handleCreate", "create", 0, 0, newTitle, <<>>))
  /\ User("ResourcesPage.handleCreate.sent", <<>>, FALSE)
  /\ UNCHANGED <<authVars, server, loading, error, plansVars, resVars, evVars>>

\* handleCreate after the await: setResources(prev => [data, ...prev]).
resHandleCreateSettled(i) ==
  /\ OnResources
  /\ net[i].h = "ResourcesPage.handleCreate"
  /\ \/ /\ net[i].phase = "ok"
        /\ resources' = net[i].resp \o resources
        /\ showCreate' = FALSE
        /\ newTitle' = <<>>
        /\ Sys("ResourcesPage.handleCreate.ok", <<"Resource created">>, FALSE)
     \/ /\ net[i].phase = "fail"
        /\ Sys("ResourcesPage.handleCreate.fail", <<"Failed to create">>, FALSE)
        /\ UNCHANGED <<resources, showCreate, newTitle>>
  /\ net' = Done(i)
  /\ UNCHANGED <<authVars, server, loading, error, plansVars, editingId, editTitle, evVars>>

\* startEdit(resource): the Edit button of a card that is not in edit mode.
resStartEdit(id) ==
  /\ ResListShown
  /\ id \in Ids(resources) /\ id # editingId
  /\ editingId' = id
  /\ editTitle' = FindById(resources, id)[1].title
  /\ User("startEdit", <<>>, FALSE)
  /\ UNCHANGED <<authVars, server, net, loading, error, plansVars, resources, showCreate,
                 newTitle, evVars>>

\* The edit form is rendered inside the card whose id is editingId.
EditFormShown == ResListShown /\ editingId \in Ids(resources)

TypeEditTitle(t) ==
  /\ EditFormShown
  /\ t # editTitle
  /\ editTitle' = t
  /\ User("setEditTitle", <<>>, FALSE)
  /\ UNCHANGED <<authVars, server, net, loading, error, plansVars, resources, showCreate,
                 newTitle, editingId, evVars>>

\* The edit form's Cancel button: setEditingId(null).
resCancelEdit ==
  /\ EditFormShown
  /\ editingId' = 0
  /\ User("setEditingId.null", <<>>, FALSE)
  /\ UNCHANGED <<authVars, server, net, loading, error, plansVars, resources, showCreate,
                 newTitle, editTitle, evVars>>

\* ResourcesPage.handleUpdate(e), up to the await; the handler closes over editingId.
resHandleUpdate ==
  /\ EditFormShown
  /\ RequiredOk(editTitle)
  /\ HasFree
  /\ net' = Send(Req("ResourcesPage.handleUpdate", "update", editingId, 0, editTitle, <<>>))
  /\ User("ResourcesPage.handleUpdate.sent", <<>>, FALSE)
  /\ UNCHANGED <<authVars, server, loading, error, plansVars, resVars, evVars>>

\* A variant of handleUpdate whose continuation reads the editingId of the
\* latest render instead of the one the handler was invoked with.
resHandleUpdateSettledLatest(i) ==
  /\ OnResources
  /\ net[i].h = "ResourcesPage.handleUpdate"
  /\ \/ /\ net[i].phase = "ok"
        /\ resources' = ReplaceById(resources, editingId, net[i].resp[1])
        /\ editingId' = 0
        /\ Sys("ResourcesPage.handleUpdate.ok", <<"Resource updated">>, FALSE)
     \/ /\ net[i].phase = "fail"
        /\ Sys("ResourcesPage.handleUpdate.fail", <<"Failed to update">>, FALSE)
        /\ UNCHANGED <<resources, editingId>>
  /\ net' = Done(i)
  /\ UNCHANGED <<authVars, server, loading, error, plansVars, showCreate, newTitle, editTitle,
                 evVars>>

\* handleUpdate after the await: setResources(prev => prev.map(...)), setEditingId(null).
resHandleUpdateSettled(i) ==
  /\ OnResources
  /\ net[i].h = "ResourcesPage.handleUpdate"
  /\ \/ /\ net[i].phase = "ok"
        /\ resources' = ReplaceById(resources, net[i].id, net[i].resp[1])
        /\ editingId' = 0
        /\ Sys("ResourcesPage.handleUpdate.ok", <<"Resource updated">>, FALSE)
     \/ /\ net[i].phase = "fail"
        /\ Sys("ResourcesPage.handleUpdate.fail", <<"Failed to update">>, FALSE)
        /\ UNCHANGED <<resources, editingId>>
  /\ net' = Done(i)
  /\ UNCHANGED <<authVars, server, loading, error, plansVars, showCreate, newTitle, editTitle,
                 evVars>>

\* ResourcesPage.handleDelete(id), up to the await: window.confirm blocks and
\* answers within the handler.
resHandleDelete(id, confirmed) ==
  /\ ResListShown
  /\ id \in Ids(resources) /\ id # editingId
  /\ IF confirmed
     THEN /\ HasFree
          /\ net' = Send(Req("ResourcesPage.handleDelete", "delete", id, 0, <<>>, <<>>))
          /\ User("ResourcesPage.handleDelete.sent", <<>>, FALSE)
     ELSE /\ User("ResourcesPage.handleDelete.cancelled", <<>>, FALSE)
          /\ UNCHANGED net
  /\ UNCHANGED <<authVars, server, loading, error, plansVars, resVars, evVars>>

\* A variant of the continuation below that filters the list before looking
\* at the outcome of the call.
resHandleDeleteSettledEager(i) ==
  /\ OnResources
  /\ net[i].h = "ResourcesPage.handleDelete"
  /\ resources' = RemoveById(resources, net[i].id)
  /\ \/ /\ net[i].phase = "ok"
        /\ Sys("ResourcesPage.handleDelete.ok", <<"Resource deleted">>, FALSE)
     \/ /\ net[i].phase = "fail"
        /\ Sys("ResourcesPage.handleDelete.fail", <<"Failed to delete resource">>, FALSE)
  /\ net' = Done(i)
  /\ UNCHANGED <<authVars, server, loading, error, plansVars, showCreate, newTitle, editingId,
                 editTitle, evVars>>

\* handleDelete after the await: setResources(prev => prev.filter(r => r.id !== id)).
resHandleDeleteSettled(i) ==
  /\ OnResources
  /\ net[i].h = "ResourcesPage.handleDelete"
  /\ \/ /\ net[i].phase = "ok"
        /\ resources' = RemoveById(resources, net[i].id)
        /\ Sys("ResourcesPage.handleDelete.ok", <<"Resource deleted">>, FALSE)
     \/ /\ net[i].phase = "fail"
        /\ Sys("ResourcesPage.handleDelete.fail", <<"Failed to delete resource">>, FALSE)
        /\ UNCHANGED resources
  /\ net' = Done(i)
  /\ UNCHANGED <<authVars, server, loading, error, plansVars, showCreate, newTitle, editingId,
                 editTitle, evVars>>

NextResources ==
  \/ \E u \in {NoUser, Viewer} : AuthSettled(u)
  \/ \E u \in {NoUser, Viewer} : AuthChanged(u)
  \/ \E i \in Slots : fetchResourcesSettled(i)
  \/ ToggleCreate
  \/ \E t \in Texts : TypeNewTitle(t)
  \/ resHandleCreate
  \/ \E i \in Slots : resHandleCreateSettled(i)
  \/ \E id \in ItemIds : resStartEdit(id)
  \/ \E t \in Texts : TypeEditTitle(t)
  \/ resCancelEdit
  \/ resHandleUpdate
  \/ \E i \in Slots : resHandleUpdateSettled(i)
  \/ \E id \in ItemIds, c \in BOOLEAN : resHandleDelete(id, c)
  \/ \E i \in Slots : resHandleDeleteSettled(i)

\* ----------------------------------------------------------- EventsPage
OnEvents == page = "events"
\* if (loading) return ...; if (error) return ...: the page body is rendered
\* only after a successful list fetch.
EvPageShown == OnEvents /\ ~loading /\ error = <<>>

\* The mount effect's axios.get(...).then / catch / finally.
evFetchSettled(i) ==
  /\ OnEvents
  /\ net[i].h = "EventsPage.useEffect"
  /\ \/ /\ net[i].phase = "ok"
        /\ events' = net[i].resp
        /\ Sys("EventsPage.useEffect.ok", <<>>, FALSE)
        /\ UNCHANGED error
     \/ /\ net[i].phase = "fail"
        /\ error' = <<"Network Error">>
        /\ Sys("EventsPage.useEffect.fail", <<>>, FALSE)
        /\ UNCHANGED events
  /\ loading' = FALSE
  /\ net' = Done(i)
  /\ UNCHANGED <<authVars, server, plansVars, resVars, modalOpen, editData, form>>

\* EventModal's effect on [initialData]: the form follows a new initialData
\* object, and is emptied when initialData becomes null.
FormAfterEditData(old, new, f) ==
  IF new # <<>> THEN [id |-> new[1].id, title |-> new[1].title]
  ELSE IF old # <<>> THEN EmptyEventForm
  ELSE f

\* The + Create Event button: setModalOpen(true).
evOpenCreate ==
  /\ EvPageShown /\ ~modalOpen
  /\ modalOpen' = TRUE
  /\ User("setModalOpen.true", <<>>, FALSE)
  /\ UNCHANGED <<authVars, server, net, loading, error, plansVars, resVars, events, editData, form>>

\* A card's edit button: setEditData({...e}); setModalOpen(true).
evOnEdit(id) ==
  /\ EvPageShown /\ ~modalOpen
  /\ id \in Ids(events)
  /\ editData' = FindById(events, id)
  /\ form' = FormAfterEditData(editData, FindById(events, id), form)
  /\ modalOpen' = TRUE
  /\ User("onEdit", <<>>, FALSE)
  /\ UNCHANGED <<authVars, server, net, loading, error, plansVars, resVars, events>>

\* EventModal.handleChange on the title input.
TypeEventTitle(t) ==
  /\ EvPageShown /\ modalOpen
  /\ t # form.title
  /\ form' = [form EXCEPT !.title = t]
  /\ User("EventModal.handleChange", <<>>, FALSE)
  /\ UNCHANGED <<authVars, server, net, loading, error, plansVars, resVars, events, modalOpen,
                 editData>>

\* The modal's Cancel button: setModalOpen(false); setEditData(null).
evModalClose ==
  /\ EvPageShown /\ modalOpen
  /\ modalOpen' = FALSE
  /\ editData' = <<>>
  /\ form' = FormAfterEditData(editData, <<>>, form)
  /\ User("EventModal.onClose", <<>>, FALSE)
  /\ UNCHANGED <<authVars, server, net, loading, error, plansVars, resVars, events>>

\* The REST call handleSubmit makes: data.id ? axios.put : axios.post.
SubmitCall(f) == IF f.id # 0 THEN "update" ELSE "create"

\* EventModal.handleSubmit -> EventsPage.handleSubmit(data), up to the dispatch.
\* Building the URL reads currentUser.id: without a user the handler throws.
evHandleSubmit ==
  /\ EvPageShown /\ modalOpen
  /\ RequiredOk(form.title)
  /\ IF currentUser = NoUser
     THEN /\ User("EventsPage.handleSubmit.threw", <<>>, TRUE)
          /\ UNCHANGED net
     ELSE /\ HasFree
          /\ SubmitCall(form) = "create" => CanCreate
          /\ net' = Send(Req("EventsPage.handleSubmit", SubmitCall(form), form.id, 0,
                             form.title, <<>>))
          /\ User("EventsPage.handleSubmit.sent", <<>>, FALSE)
  /\ UNCHANGED <<authVars, server, loading, error, plansVars, resVars, evVars>>

\* handleSubmit's first then: the success toast, then the list is fetched again
\* (the same promise chain); a failure goes to catch and finally.
evHandleSubmitSettled(i) ==
  /\ OnEvents
  /\ net[i].h = "EventsPage.handleSubmit"
  /\ \/ /\ net[i].phase = "ok"
        /\ net' = [net EXCEPT ![i] =
                     Req("EventsPage.handleSubmit.refetch", "list", net[i].id, 0, <<>>, <<>>)]
        /\ Sys("EventsPage.handleSubmit.ok",
               <<IF net[i].op = "update" THEN "Event updated successfully!"
                                         ELSE "Event created successfully!">>, FALSE)
        /\ UNCHANGED <<modalOpen, editData, form>>
     \/ /\ net[i].phase = "fail"
        /\ net' = Done(i)
        /\ Sys("EventsPage.handleSubmit.fail",
               <<IF net[i].op = "update" THEN "Failed to update event."
                                         ELSE "Failed to create event.">>, FALSE)
        /\ modalOpen' = FALSE
        /\ editData' = <<>>
        /\ form' = FormAfterEditData(editData, <<>>, form)
  /\ UNCHANGED <<authVars, server, loading, error, plansVars, resVars, events>>

\* handleSubmit's second then (setEvents), catch and finally.
evRefetchSettled(i) ==
  /\ OnEvents
  /\ net[i].h = "EventsPage.handleSubmit.refetch"
  /\ \/ /\ net[i].phase = "ok"
        /\ events' = net[i].resp
        /\ Sys("EventsPage.handleSubmit.refetched", <<>>, FALSE)
     \/ /\ net[i].phase = "fail"
        /\ Sys("EventsPage.handleSubmit.refetchFailed",
               <<IF net[i].id # 0 THEN "Failed to update event."
                                  ELSE "Failed to create event.">>, FALSE)
        /\ UNCHANGED events
  /\ net' = Done(i)
  /\ modalOpen' = FALSE
  /\ editData' = <<>>
  /\ form' = FormAfterEditData(editData, <<>>, form)
  /\ UNCHANGED <<authVars, server, loading, error, plansVars, resVars>>

\* EventsPage.handleDelete(id), up to the dispatch; the handler closes over events.
evHandleDelete(id) ==
  /\ EvPageShown /\ ~modalOpen
  /\ id \in Ids(events)
  /\ IF currentUser = NoUser
     THEN /\ User("EventsPage.handleDelete.threw", <<>>, TRUE)
          /\ UNCHANGED net
     ELSE /\ HasFree
          /\ net' = Send(Req("EventsPage.handleDelete", "delete", id, 0, <<>>, events))
          /\ User("EventsPage.handleDelete.sent", <<>>, FALSE)
  /\ UNCHANGED <<authVars, server, loading, error, plansVars, resVars, evVars>>

\* handleDelete's then / catch: setEvents(events.filter(e => e.id !== id)).
evHandleDeleteSettled(i) ==
  /\ OnEvents
  /\ net[i].h = "EventsPage.handleDelete"
  /\ \/ /\ net[i].phase = "ok"
        /\ events' = RemoveById(net[i].snap, net[i].id)
        /\ Sys("EventsPage.handleDelete.ok", <<"Event deleted successfully!">>, FALSE)
     \/ /\ net[i].phase = "fail"
        /\ Sys("EventsPage.handleDelete.fail", <<"Failed to delete event.">>, FALSE)
        /\ UNCHANGED events
  /\ net' = Done(i)
  /\ UNCHANGED <<authVars, server, loading, error, plansVars, resVars, modalOpen, editData, form>>

\* EventsPage.handleRegister(id), up to the dispatch.
evHandleRegister(id) ==
  /\ EvPageShown /\ ~modalOpen
  /\ id \in Ids(events)
  /\ IF currentUser = NoUser
     THEN /\ User("EventsPage.handleRegister.threw", <<>>, TRUE)
          /\ UNCHANGED net
     ELSE /\ HasFree
          /\ net' = Send(Req("EventsPage.handleRegister", "register", id, 0, <<>>, <<>>))
          /\ User("EventsPage.handleRegister.sent", <<>>, FALSE)
  /\ UNCHANGED <<authVars, server, loading, error, plansVars, resVars, evVars>>

\* handleRegister's then / catch.
evHandleRegisterSettled(i) ==
  /\ OnEvents
  /\ net[i].h = "EventsPage.handleRegister"
  /\ \/ /\ net[i].phase = "ok"
        /\ Sys("EventsPage.handleRegister.ok", <<"Registered successfully!">>, FALSE)
     \/ /\ net[i].phase = "fail"
        /\ Sys("EventsPage.handleRegister.fail", <<"Failed to register for event.">>, FALSE)
  /\ net' = Done(i)
  /\ UNCHANGED <<authVars, server, loading, error, plansVars, resVars, evVars>>

NextEvents ==
  \/ \E i \in Slots : evFetchSettled(i)
  \/ evOpenCreate
  \/ \E id \in ItemIds : evOnEdit(id)
  \/ \E t \in Texts : TypeEventTitle(t)
  \/ evModalClose
  \/ evHandleSubmit
  \/ \E i \in Slots : evHandleSubmitSettled(i)
  \/ \E i \in Slots : evRefetchSettled(i)
  \/ \E id \in ItemIds : evHandleDelete(id)
  \/ \E i \in Slots : evHandleDeleteSettled(i)
  \/ \E id \in ItemIds : evHandleRegister(id)
  \/ \E i \in Slots : evHandleRegisterSettled(i)

NextServer ==
  \/ \E i \in Slots : ServerOk(i)
  \/ \E i \in Slots : ServerFail(i)

Next == NextServer \/ NextPlans \/ NextResources \/ NextEvents

Spec == Init /\ [][Next]_vars

\* ====================================================================
\* Properties
\* ====================================================================
\* The Collection Store of the mounted page.
Store == IF page = "plans" THEN learningPlans
         ELSE IF page = "resources" THEN resources ELSE events

\* The continuation of request i ran in this step.
Settles(i) == net[i].phase \in {"ok", "fail"} /\ net'[i] = Idle
\* A request was dispatched into slot i in this step.
Dispatches(i) == net[i] = Idle /\ net'[i] # Idle

\* The steps in which a handler's catch branch runs.
FailureSteps ==
  {"handlePlanSubmit.fail", "handleLike.fail", "handleAddComment.fail",
   "Comment.handleUpdate.fail", "Comment.handleDelete.fail", "handleDelete.fail",
   "ResourcesPage.handleCreate.fail", "ResourcesPage.handleUpdate.fail",
   "ResourcesPage.handleDelete.fail", "EventsPage.handleSubmit.fail",
   "EventsPage.handleSubmit.refetchFailed", "EventsPage.handleDelete.fail",
   "EventsPage.handleRegister.fail"}

\* C1: when the gateway call of a Reconciler operation fails, the step in which
\* the handler handles the failure leaves every Collection Store exactly as it
\* was: no partial patch is applied.
C1_FailureKeepsStore ==
  [][last' \in FailureSteps =>
       /\ learningPlans' = learningPlans
       /\ resources' = resources
       /\ events' = events]_vars

\* A handler has just handled a failed call while the store held items.
C1_Witness == last \in FailureSteps /\ Store # <<>>

\* The steps in which a mutating handler runs on the user's gesture (for the
\* deletes of the learning plan page: on the confirm button).
MutatingSteps ==
  {"handlePlanSubmit.noUser", "handlePlanSubmit.invalid", "handlePlanSubmit.sent",
   "handleLike.noUser", "handleLike.sent",
   "CommentForm.onSubmit.noUser", "CommentForm.onSubmit.sent",
   "Comment.handleUpdate.sent", "Comment.handleUpdate.invalidType",
   "Comment.handleDelete.noUser", "Comment.handleDelete.sent", "Comment.handleDelete.invalidType",
   "handleDelete.noUser", "handleDelete.sent",
   "ResourcesPage.handleCreate.sent", "ResourcesPage.handleUpdate.sent",
   "ResourcesPage.handleDelete.sent",
   "EventsPage.handleSubmit.threw", "EventsPage.handleSubmit.sent",
   "EventsPage.handleDelete.threw", "EventsPage.handleDelete.sent",
   "EventsPage.handleRegister.threw", "EventsPage.handleRegister.sent"}

\* C2: with no authenticated user, a mutating action dispatches no network call
\* and emits exactly one notification.
C2_NoUserOneNotification ==
  [][(currentUser = NoUser /\ last' \in MutatingSteps) =>
       (net' = net /\ Len(toasts') = 1)]_vars

\* The user confirmed a delete in this step: the confirm button of the open
\* modal, or window.confirm answered with OK.
ConfirmedNow ==
  \/ page = "plans" /\ modalState.isOpen /\ ~modalState'.isOpen /\ last' # "closeModal"
  \/ page = "resources" /\ last' = "ResourcesPage.handleDelete.sent"

\* C3: a delete call is dispatched only in a step in which the user confirmed,
\* and a cancelled confirmation dispatches nothing and leaves the store alone.
C3_DeleteOnlyAfterConfirm ==
  [][/\ \A i \in Slots :
          (Dispatches(i) /\ net'[i].op \in {"delete", "deleteComment"}) => ConfirmedNow
     /\ last' \in {"closeModal", "ResourcesPage.handleDelete.cancelled"} =>
          (net' = net /\ Store' = Store)]_vars

\* C4: the step that applies a successful delete leaves the store without the
\* deleted id and with every other item that was in it immediately before, in
\* the same order and with the same content.
C4_DeleteRemovesOnlyTarget ==
  [][\A i \in Slots :
       (Settles(i) /\ net[i].op = "delete" /\ net[i].phase = "ok") =>
          Store' = RemoveById(Store, net[i].id)]_vars

\* The handlers that patch one item by id.
PatchHandlers == {"handleLike", "CommentForm.onSubmit", "Comment.handleUpdate",
                  "Comment.handleDelete", "ResourcesPage.handleUpdate"}

\* C5: the step that applies a successful patch-by-id operation keeps the
\* number of items, and keeps every item with another id unchanged at its
\* position.
C5_PatchFrame ==
  [][\A i \in Slots :
       (Settles(i) /\ net[i].h \in PatchHandlers /\ net[i].phase = "ok") =>
          /\ Len(Store') = Len(Store)
          /\ \A k \in 1..Len(Store) :
               Store[k].id # net[i].id => Store'[k] = Store[k]]_vars

\* C6: after two like toggles of one plan in sequence, each invoked once the
\* previous one was applied, both successful, the plan's like set is the one
\* found by the first of the two.
C6_ToggleTwice ==
  toggle.n = 2 => LikeSet(learningPlans, toggle.id) = toggle.s0

\* Two toggles in a row were applied to a plan the viewer had liked.
C6_Witness == toggle.n = 2 /\ Viewer \in toggle.s0

\* C7: handleLike dispatches exactly one call, add-like when the viewer is not
\* in the plan's likes and remove-like when they are; a successful add-like puts
\* exactly the server's item at that id, a successful remove-like puts there the
\* plan the handler read with only the viewer's likes filtered out.
C7_LikeToggle ==
  [][/\ last' = "handleLike.sent" =>
          \E i \in Slots :
             /\ Dispatches(i)
             /\ \A j \in Slots \ {i} : net'[j] = net[j]
             /\ net'[i].op = IF currentUser \in LikeSet(learningPlans, net'[i].id)
                             THEN "removeLike" ELSE "addLike"
     /\ \A i \in Slots :
          (Settles(i) /\ net[i].h = "handleLike" /\ net[i].phase = "ok") =>
             LET old == FindById(net[i].snap, net[i].id)[1]
                 new == FindById(learningPlans', net[i].id)
             IN IF net[i].op = "addLike"
                THEN new = net[i].resp
                ELSE new = <<[id |-> old.id, userId |-> old.userId, title |-> old.title,
                              comments |-> old.comments,
                              likes |-> SelectSeq(old.likes,
                                                  LAMBDA l : l.userId # currentUser)]>>]_vars

\* A remove-like has been applied and the plan still carries another user's like.
C7_Witness ==
  /\ last = "handleLike.unliked"
  /\ \E k \in 1..Len(learningPlans) : Other \in LikeSet(learningPlans, learningPlans[k].id)

\* C8: a comment whose delete was applied to the store is in no item of the
\* store until a full fetch replaces the store.
C8_DeletedCommentStaysGone ==
  \A c \in gone : c \notin AllComments(learningPlans)

\* C9: submitting a create form whose title is empty or only whitespace
\* dispatches no call, emits exactly one notification, and leaves the form
\* values and the store unchanged.
C9_BlankTitleRejected ==
  [][(\/ /\ last' \in {"handlePlanSubmit.noUser", "handlePlanSubmit.invalid",
                       "handlePlanSubmit.sent"}
         /\ Trim(planForm.title) = <<>>
      \/ /\ last' = "ResourcesPage.handleCreate.sent"
         /\ Trim(newTitle) = <<>>
      \/ /\ last' \in {"EventsPage.handleSubmit.sent", "EventsPage.handleSubmit.threw"}
         /\ form.id = 0
         /\ Trim(form.title) = <<>>) =>
       /\ net' = net
       /\ Len(toasts') = 1
       /\ planForm' = planForm /\ newTitle' = newTitle /\ form' = form
       /\ Store' = Store]_vars

\* The submissions of a form that are in flight.
InFlight(hs) == {i \in Slots : net[i].h \in hs /\ net[i].live}

\* C10: a form has at most one submission in flight, and its submitting flag is
\* set while one is.
C10_OneSubmissionPerForm ==
  /\ Cardinality(InFlight({"handlePlanSubmit"})) <= 1
  /\ InFlight({"handlePlanSubmit"}) # {} => isSubmitting
  /\ \A id \in ItemIds :
       LET mine == {i \in InFlight({"CommentForm.onSubmit"}) : net[i].id = id} IN
         /\ Cardinality(mine) <= 1
         /\ mine # {} => commentForm[id].isSubmitting
  /\ Cardinality(InFlight({"ResourcesPage.handleCreate"})) <= 1
  /\ Cardinality(InFlight({"ResourcesPage.handleUpdate"})) <= 1
  /\ Cardinality(InFlight({"EventsPage.handleSubmit", "EventsPage.handleSubmit.refetch"})) <= 1

\* The viewer's last intent for a plan: each toggle asked for inverts the
\* membership the plan was loaded with.
IntendsLike(planId) == (planId \in intent) # HasLike(InitItem("plans", planId), Viewer)

\* C11: a like toggle invoked while another one is in flight is dispatched and
\* leaves every request in flight as it is (none is cancelled or queued), and
\* each successful response is applied to the store when it arrives: after it
\* the viewer is in the plan's likes exactly when the call was add-like.
C11_TogglesIndependent ==
  [][/\ last' = "handleLike.sent" =>
          /\ \E i \in Slots : Dispatches(i) /\ net'[i].h = "handleLike"
          /\ \A j \in Slots : net[j] # Idle => net'[j] = net[j]
     /\ \A i \in Slots :
          (Settles(i) /\ net[i].h = "handleLike" /\ net[i].phase = "ok") =>
             /\ (currentUser \in LikeSet(learningPlans', net[i].id)) = (net[i].op = "addLike")
             /\ \A j \in Slots \ {i} : net[j].h = "handleLike" => net'[j] = net[j]]_vars

\* Two gestures were made, both toggles of one plan, both answered with success
\* and applied: store and server agree, and the viewer's membership is not the
\* one two toggles ask for.
C11_Witness ==
  /\ budget = MaxGestures - 2
  /\ last \in {"handleLike.liked", "handleLike.unliked"}
  /\ \A i \in Slots : net[i] = Idle
  /\ \E k \in 1..Len(learningPlans) :
       LET id == learningPlans[k].id IN
         /\ SrvHas(id)
         /\ HasLike(SrvFind(id)[1], Viewer) = HasLike(learningPlans[k], Viewer)
         /\ HasLike(learningPlans[k], Viewer) # IntendsLike(id)

\* No two positions of the list hold the same id.
UniqueIds(store) ==
  \A j, k \in 1..Len(store) : store[j].id = store[k].id => j = k

\* C12: in every reachable state no two items of the learning plan, resource or
\* event store share an id.
C12_UniqueItemIds ==
  UniqueIds(learningPlans) /\ UniqueIds(resources) /\ UniqueIds(events)

\* C13: in every reachable state each plan's likes list in the store has at most
\* one entry per userId.
C13_OneLikePerUser ==
  \A k \in 1..Len(learningPlans) :
    \A a, b \in 1..Len(learningPlans[k].likes) :
      learningPlans[k].likes[a].userId = learningPlans[k].likes[b].userId => a = b

\* Two add-like calls of one plan were fired before the first resolved: one has
\* been applied, the other is answered and still to be applied.
C13_Witness ==
  \E i \in Slots :
    /\ net[i].h = "handleLike" /\ net[i].op = "addLike" /\ net[i].phase = "ok"
    /\ IsLiked(learningPlans, net[i].id, Viewer)
    /\ ~IsLiked(net[i].snap, net[i].id, Viewer)

\* C14: the step that applies a successful create puts the server's item at the
\* head of the store, followed by the items the store held immediately before,
\* in their order.
C14_CreatePrepends ==
  [][\A i \in Slots :
       (/\ Settles(i)
        /\ net[i].h \in {"handlePlanSubmit", "ResourcesPage.handleCreate"}
        /\ net[i].phase = "ok") =>
          Store' = net[i].resp \o Store]_vars

\* The steps of Comment.handleUpdate and Comment.handleDelete other than the
\* continuation of a successful call.
CommentNoSuccessSteps ==
  {"Comment.handleUpdate.blank", "Comment.handleUpdate.sent", "Comment.handleUpdate.invalidType",
   "Comment.handleUpdate.fail", "Comment.handleDelete.openModal", "Comment.handleDelete.sent",
   "Comment.handleDelete.invalidType", "Comment.handleDelete.noUser",
   "Comment.handleDelete.fail"}

\* C15: comment update and comment delete leave the store alone until their call
\* has succeeded (so also on failure and on an unrecognised commentType); on
\* success the plan's comments are the ones the handler read, with only the
\* content and the edit mark of the matching comment replaced (update) or with
\* only the matching comment removed (delete).
C15_CommentPatchAfterSuccess ==
  [][/\ last' \in CommentNoSuccessSteps => learningPlans' = learningPlans
     /\ \A i \in Slots :
          (/\ Settles(i)
           /\ net[i].h \in {"Comment.handleUpdate", "Comment.handleDelete"}
           /\ net[i].phase = "ok") =>
             LET old == FindById(net[i].snap, net[i].id)[1].comments
                 new == FindById(learningPlans', net[i].id)[1].comments
             IN IF net[i].op = "updateComment"
                THEN /\ Len(new) = Len(old)
                     /\ \A k \in 1..Len(old) :
                          IF old[k].id = net[i].cid
                          THEN new[k] = [id |-> old[k].id, userId |-> old[k].userId,
                                         content |-> net[i].data, edited |-> TRUE]
                          ELSE new[k] = old[k]
                ELSE new = SelectSeq(old, LAMBDA c : c.id # net[i].cid)]_vars

\* A comment update has been applied: the store shows the edited comment.
C15_Witness ==
  /\ last = "Comment.handleUpdate.ok"
  /\ \E k \in 1..Len(learningPlans) :
       \E c \in 1..Len(learningPlans[k].comments) : learningPlans[k].comments[c].edited

\* The ids of the comments, in their order.
CommentOrder(plan) == [k \in 1..Len(plan.comments) |-> plan.comments[k].id]

C17_CommentAdd ==
  [][\A i \in Slots :
       (Settles(i) /\ net[i].h = "CommentForm.onSubmit") =>
          IF net[i].phase = "ok"
          THEN /\ FindById(learningPlans', net[i].id) = net[i].resp
               /\ net[i].live => commentForm'[net[i].id].text = <<>>
          ELSE /\ learningPlans' = learningPlans
               /\ net[i].live => /\ commentForm'[net[i].id].text = net[i].data
                                 /\ Trim(commentForm'[net[i].id].text) # <<>>]_vars

\* A comment add has been applied: the plan shows the comment the server
\* numbered, and its form is empty.
C17_Witness ==
  /\ last = "handleAddComment.ok"
  /\ \E k \in 1..Len(learningPlans) :
       /\ \E c \in 1..Len(learningPlans[k].comments) : learningPlans[k].comments[c].id > 1
       /\ commentForm[learningPlans[k].id].text = <<>>

\* The component that opened the modal is unmounted by this step: a Comment
\* whose comment leaves the store takes its modal with it.
ModalOwnerUnmounts ==
  modalState.kind = "comment" /\ modalState.cid \notin AllComments(learningPlans')

\* The steps of the confirm button.
ConfirmSteps == {"handleDelete.noUser", "handleDelete.sent", "Comment.handleDelete.invalidType",
                 "Comment.handleDelete.noUser", "Comment.handleDelete.sent"}

\* C18: the modal goes from closed to open only by openModal and from open to
\* closed only by the confirm button or by onClose; the confirm step runs the
\* captured callback once, on what openModal captured, and closes; an onClose
\* step closes without running it; a click inside the modal changes nothing.
C18_ConfirmModal ==
  [][/\ (modalState' # modalState /\ ~ModalOwnerUnmounts) =>
          \/ /\ ~modalState.isOpen /\ modalState'.isOpen
             /\ last' \in {"handleDelete.openModal", "Comment.handleDelete.openModal"}
          \/ /\ modalState.isOpen /\ ~modalState'.isOpen
             /\ last' \in ConfirmSteps \cup {"closeModal"}
     /\ last' \in ConfirmSteps =>
          /\ modalState.isOpen /\ ~modalState'.isOpen
          /\ Cardinality({i \in Slots : Dispatches(i)}) <= 1
          /\ Cardinality({i \in Slots : Dispatches(i)}) + Len(toasts') = 1
          /\ \A i \in Slots :
               Dispatches(i) => /\ net'[i].id = modalState.id
                                /\ net'[i].cid = modalState.cid
                                /\ net'[i].snap = modalState.snap
     /\ last' = "closeModal" =>
          /\ modalState.isOpen /\ ~modalState'.isOpen
          /\ net' = net /\ learningPlans' = learningPlans /\ toasts' = <<>>
     /\ last' = "ConfirmModal.handleModalClick" =>
          /\ modalState' = modalState /\ modalState.isOpen
          /\ net' = net /\ learningPlans' = learningPlans]_vars

\* The user confirmed a plan delete: the callback has dispatched its call and the
\* modal is closed.
C18_Witness ==
  /\ last = "handleDelete.sent"
  /\ ~modalState.isOpen
  /\ \E i \in Slots : net[i].h = "handleDelete" /\ net[i].phase = "sent"

\* C19: no failure is fatal to a page: once the page is not loading, the body of
\* the events page (list, create, edit and delete actions) and the list of the
\* resources page are rendered.
C19_NoFatalError ==
  /\ (OnEvents /\ ~loading) => EvPageShown
  /\ (ResPageShown /\ ~loading) => ResListShown

\* The handlers of the learning plan page whose continuation writes the store
\* (the comment add runs handleAddComment, the confirmed delete handleDelete).
PlanWriters == {"handlePlanSubmit", "handleLike", "CommentForm.onSubmit", "handleDelete"}

\* C20: when the response of an operation of the learning plan page is applied,
\* what other operations did to the store since that operation was dispatched
\* (for delete: since its modal was opened) is still there for the plans it does
\* not target: a plan they changed or created is in the store unchanged, and a
\* plan they removed stays out.
C20_NoLostUpdate ==
  [][\A i \in Slots :
       (Settles(i) /\ net[i].h \in PlanWriters /\ net[i].phase = "ok") =>
          /\ \A k \in 1..Len(learningPlans) :
               (/\ learningPlans[k].id # net[i].id
                /\ FindById(net[i].snap, learningPlans[k].id) # <<learningPlans[k]>>) =>
                  FindById(learningPlans', learningPlans[k].id) = <<learningPlans[k]>>
          /\ \A id \in Ids(net[i].snap) \ Ids(learningPlans) :
               id # net[i].id => id \notin Ids(learningPlans')]_vars

\* C21: a plan whose delete succeeded and was applied to the store is not in
\* the store again until a full fetch replaces the store: the completion of a
\* like, unlike, comment add or create that was in flight at the time of the
\* delete does not bring it back.
C21_DeletedPlanStaysGone ==
  \A p \in removed : p \notin Ids(learningPlans)

\* The notifications of handleSubmit.
SubmitSuccess == {"Event updated successfully!", "Event created successfully!"}
SubmitFailure == {"Failed to update event.", "Failed to create event."}

\* C22: a dispatched event create/update submission emits exactly one
\* notification: a failed call emits one failure notification and leaves the
\* store alone; once the call has succeeded and the success notification is out,
\* the end of the submission emits nothing more and replaces the store by the
\* re-fetched list.
C22_OneEventNotification ==
  [][\A i \in Slots :
       /\ (net[i].h = "EventsPage.handleSubmit" /\ net[i].phase = "ok" /\ net'[i] # net[i]) =>
            /\ Len(toasts') = 1 /\ toasts'[1] \in SubmitSuccess
            /\ net'[i].h = "EventsPage.handleSubmit.refetch"
       /\ (Settles(i) /\ net[i].h = "EventsPage.handleSubmit") =>
            /\ Len(toasts') = 1 /\ toasts'[1] \in SubmitFailure
            /\ events' = events
       /\ (Settles(i) /\ net[i].h = "EventsPage.handleSubmit.refetch") =>
            /\ toasts' = <<>>
            /\ events' = net[i].resp]_vars

\* C23: on the resources page, when a list fetch succeeds the store holds the
\* fetched list and no error message is shown in its place: a fetch that
\* succeeds after an earlier one failed clears the error state.
C23_FetchClearsError ==
  [][\A i \in Slots :
       (Settles(i) /\ net[i].h = "fetchResources" /\ net[i].phase = "ok") =>
          /\ resources' = net[i].resp
          /\ error' = <<>>]_vars

\* A request of handler h is in flight for a mounted component.
Busy(h) == {i \in Slots : net[i].h = h /\ net[i].live}

\* C24: no busy flag stays raised once its call has settled.  A raised
\* isSubmitting (plan create, comment form), isDeleting (comment) or loading
\* (list fetch of the plans and resources pages) has its call still in flight;
\* the step in which the call settles, on success or failure, leaves the flag
\* lowered, and the paths of a confirmed comment delete and of a comment
\* submission that end before any call (invalid comment type, no user) leave
\* it lowered too.
C24_BusyFlagsLowered ==
  /\ [](/\ isSubmitting => Busy("handlePlanSubmit") # {}
        /\ \A k \in ItemIds : commentForm[k].isSubmitting =>
             \E i \in Busy("CommentForm.onSubmit") : net[i].id = k
        /\ \A c \in isDeleting : \E i \in Busy("Comment.handleDelete") : net[i].cid = c
        /\ (OnPlans /\ loading) => Busy("fetchLearningPlans") # {}
        /\ (ResPageShown /\ loading) => Busy("fetchResources") # {})
  /\ [][/\ \A i \in Slots : (Settles(i) /\ net[i].live) =>
             /\ net[i].h = "handlePlanSubmit" => ~isSubmitting'
             /\ net[i].h = "CommentForm.onSubmit" => ~commentForm'[net[i].id].isSubmitting
             /\ net[i].h = "Comment.handleDelete" => net[i].cid \notin isDeleting'
             /\ net[i].h \in {"fetchLearningPlans", "fetchResources"} => ~loading'
        /\ last' \in {"Comment.handleDelete.invalidType", "Comment.handleDelete.noUser"} =>
             modalState.cid \notin isDeleting'
        /\ last' = "CommentForm.onSubmit.noUser" =>
             \A k \in ItemIds : ~commentForm'[k].isSubmitting]_vars

\* A comment delete failed: the comment is still shown and is not marked as
\* being deleted.
C24_Witness ==
  /\ last = "Comment.handleDelete.fail"
  /\ 1 \in AllComments(learningPlans)
  /\ isDeleting = {}

\* C25: when an event create/update submission settles, after success (once
\* the follow-up list fetch has settled) and after failure alike, the event
\* modal is closed, the edit data is cleared, and the values entered in the
\* modal's form are discarded.
C25_SubmitClosesModal ==
  [][\A i \in Slots :
       (/\ Settles(i)
        /\ net[i].h \in {"EventsPage.handleSubmit", "EventsPage.handleSubmit.refetch"}) =>
          /\ ~modalOpen'
          /\ editData' = <<>>
          /\ form' = EmptyEventForm]_vars

\* The handlers of the resources page that call the server to change a resource,
\* and the steps in which one of them is invoked.
ResMutators ==
  {"ResourcesPage.handleCreate", "ResourcesPage.handleUpdate", "ResourcesPage.handleDelete"}
ResInvocations ==
  {"ResourcesPage.handleCreate.sent", "ResourcesPage.handleUpdate.sent",
   "ResourcesPage.handleDelete.sent", "ResourcesPage.handleDelete.cancelled"}
SignedIn == ~authLoading /\ currentUser # NoUser

\* C26: on the resources page a list request is dispatched only by a step that
\* ends with authentication settled and a user present, and every step that
\* changes authLoading or currentUser to such a state dispatches one; create,
\* update and delete are invoked, and their calls dispatched, only in a state
\* with authentication settled and a user present.
C26_ResourcesAuthGate ==
  [][OnResources =>
       /\ \A i \in Slots :
            (Dispatches(i) /\ net'[i].h = "fetchResources") =>
               /\ SignedIn'
               /\ <<authLoading, currentUser>>' # <<authLoading, currentUser>>
       /\ (SignedIn' /\ <<authLoading, currentUser>>' # <<authLoading, currentUser>>) =>
            \E i \in Slots : Dispatches(i) /\ net'[i].h = "fetchResources"
       /\ \A i \in Slots : (Dispatches(i) /\ net'[i].h \in ResMutators) => SignedIn
       /\ (last' \in ResInvocations /\ budget' # budget) => SignedIn]_vars

\* The user signed in after authentication had settled without one, and the
\* list request this caused is in flight.
C26_Witness ==
  /\ last = "AuthContext.changed"
  /\ SignedIn
  /\ resources = <<>>
  /\ \E i \in Slots : net[i].h = "fetchResources" /\ net[i].phase = "sent"

\* The steps of CommentForm.onSubmit up to its await.
CommentSubmitSteps ==
  {"CommentForm.onSubmit.blank", "CommentForm.onSubmit.noUser", "CommentForm.onSubmit.sent"}

\* C27: the text of a comment form that stays mounted goes from entered to
\* empty only when the user edits it or when a comment add submitted from it
\* has succeeded.  A submission dispatches a call and raises the submitting
\* flag only for a text that is not blank once trimmed, and does not touch the
\* text or the store; a failed add leaves the entered text in the form and the
\* store as it is, so the store is written at most once per submission, by the
\* step that applies the successful add.
C27_FormClearedOnSuccessOnly ==
  [][/\ \A k \in Ids(learningPlans) \cap Ids(learningPlans') :
          (commentForm[k].text # <<>> /\ commentForm'[k].text = <<>>) =>
             \/ last' = "TypeComment"
             \/ \E i \in Slots : /\ Settles(i) /\ net[i].h = "CommentForm.onSubmit"
                                 /\ net[i].id = k /\ net[i].phase = "ok" /\ net[i].live
     /\ last' \in CommentSubmitSteps =>
          /\ learningPlans' = learningPlans
          /\ \A k \in ItemIds :
               /\ commentForm'[k].text = commentForm[k].text
               /\ (commentForm'[k].isSubmitting /\ ~commentForm[k].isSubmitting) =>
                    /\ Trim(commentForm[k].text) # <<>>
                    /\ \E i \in Slots : Dispatches(i) /\ net'[i].id = k
          /\ \A i \in Slots :
               Dispatches(i) => /\ Trim(net'[i].data) # <<>>
                                /\ net'[i].data = commentForm[net'[i].id].text
                                /\ commentForm'[net'[i].id].isSubmitting
          /\ Cardinality({i \in Slots : Dispatches(i)}) <= 1
     /\ \A i \in Slots :
          (Settles(i) /\ net[i].h = "CommentForm.onSubmit" /\ net[i].phase = "fail") =>
             /\ learningPlans' = learningPlans
             /\ net[i].live => commentForm'[net[i].id] =
                                 [text |-> net[i].data, isSubmitting |-> FALSE]]_vars

\* A comment add failed: the form it was submitted from still holds the text
\* and can be submitted again.
C27_Witness ==
  /\ last = "handleAddComment.fail"
  /\ \E k \in Ids(learningPlans) :
       commentForm[k].text # <<>> /\ ~commentForm[k].isSubmitting

\* C28: on the resources page an update is submitted for the item in edit mode
\* with the entered values; when it succeeds, the store becomes the same list
\* with the server's item in place of the item of that id and of no other, and
\* edit mode is left; when it fails, the store, the item in edit mode and the
\* entered values stay as they are.
C28_UpdateReplacesEdited ==
  [][/\ last' = "ResourcesPage.handleUpdate.sent" =>
          \E i \in Slots : /\ Dispatches(i)
                           /\ net'[i].id = editingId /\ editingId \in Ids(resources)
                           /\ net'[i].data = editTitle
     /\ \A i \in Slots :
          (Settles(i) /\ net[i].h = "ResourcesPage.handleUpdate") =>
             IF net[i].phase = "ok"
             THEN /\ Len(resources') = Len(resources)
                  /\ \A k \in 1..Len(resources) :
                       resources'[k] = IF resources[k].id = net[i].id
                                       THEN net[i].resp[1] ELSE resources[k]
                  /\ editingId' = 0
             ELSE /\ resources' = resources
                  /\ editingId' = editingId
                  /\ editTitle' = editTitle]_vars

\* An update has been applied: a resource shows the title that was entered and
\* no card is in edit mode.
C28_Witness ==
  /\ last = "ResourcesPage.handleUpdate.ok"
  /\ editingId = 0
  /\ \E k \in 1..Len(resources) : resources[k].title = <<" ">>

====
